---------------------------- MODULE Spec2Model ----------------------------
(***************************************************************************)
(* BDSpace: parametric curves (adaptive arc length by mesh refinement),    *)
(* angle reduction and coordinate conversions.                             *)
(*                                                                         *)
(* Numbers.  The program computes in IEEE doubles; the model computes in   *)
(* exact integers on inputs for which every intermediate value is an       *)
(* integer.  Angles are counted in quarter turns: one unit is pi/2, so     *)
(* M_PI is 2 units and sin, cos and atan2 are exact on the grid.           *)
(***************************************************************************)
EXTENDS Integers, Sequences, FiniteSets, TLC

VARIABLES
    \* ---- angle reduction (one call of reduce_angle / __reduce_angle, then a second)
    theta,          \* the angle passed in
    center_flag,    \* center
    positive_flag,  \* positive
    reduced1,       \* result of the first reduction
    reduced2,       \* result of reducing reduced1 again with the same flags
    apc,            \* "input" | "reduced" | "again"
    \* ---- coordinate conversions (one call, then the inverse call)
    arr,            \* the caller's numpy array: [shape, data] (C order)
    arr0,           \* the value arr had before the call
    fn,             \* the conversion called
    res,            \* what the call returned: [raised, shape, data]
    back,           \* what the inverse conversion of res returned
    cpc,            \* "input" | "converted" | "back"
    \* ---- the curve object (shared by the tangent calls and the length computation)
    curve,          \* [kind, origin, a, b, c, direction, degree, start, stop]
    \* ---- batched tangents (one call of tangent and of tangent_x/_y/_z)
    samples,        \* the sample sequence t
    tstep,          \* step
    tan_rows,       \* what tangent(t, step) returned: a sequence of triples
    tan_x, tan_y, tan_z,    \* what tangent_x, tangent_y, tangent_z returned
    tan_s,          \* the unsigned int s the calls computed from t.shape[0]
    tan_outcome,    \* how the calls ended: [batched, per_axis]
    tpc,            \* "input" | "called"
    \* ---- one call of length(precision, max_iterations, tangent_step)
    precision, max_iterations, tangent_step,    \* the arguments
    meshes_tree,    \* the TreeMesh1DUniform of the call
    iteration,      \* passes started so far
    level,          \* the level the current pass works on
    to_refine,      \* sub-intervals flagged in the current pass
    idx,            \* position of the for loop in the list meshes_tree.tree[level]
    pc,             \* "while" | "for" | "return" | "done"
    length_result,  \* what length() returned
    flagged,        \* history: to_refine at the end of each finished pass
    returned,       \* history: the calls that returned, oldest first
    pass_meshes,    \* history: the intervals of tree[level] when the current pass started
    visited,        \* history: the intervals of the meshes evaluated in the current pass
    \* ---- an Arc whose properties are set after construction
    arc_ecc,        \* what the last call of eccentricity() returned
    \* ---- two calls of length() on one curve object, interleaved
    frames,         \* call number -> the arguments and locals of that call
    \* ---- a SuperposedField whose fields are assigned after construction
    sf,             \* the object: [type, fields]
    sf_before,      \* history: the object before the last assignment
    sf_assigned,    \* history: the list of the last assignment
    sf_raised       \* what the last assignment raised: "none" | "ValueError"

angleVars == <<theta, center_flag, positive_flag, reduced1, reduced2, apc>>
coordVars == <<arr, arr0, fn, res, back, cpc>>
tangentVars == <<samples, tstep, tan_rows, tan_x, tan_y, tan_z, tan_s, tan_outcome, tpc>>
meshVars == <<precision, max_iterations, tangent_step, meshes_tree, iteration,
              level, to_refine, idx, pc, length_result, flagged, returned,
              pass_meshes, visited>>
arcVars == <<arc_ecc>>
\* the variables of the operations added after the four above
fieldVars == <<sf, sf_before, sf_assigned, sf_raised>>
otherVars == <<arcVars, frames, fieldVars>>
vars == <<angleVars, coordVars, curve, tangentVars, meshVars, otherVars>>

-----------------------------------------------------------------------------
(* Bounds of the model *)

MaxAngle == 12      \* angles are drawn from -MaxAngle..MaxAngle quarter turns
MaxLen == 4         \* longest one-dimensional input array
MaxRows == 2        \* most rows of a two-dimensional input array
MaxCoord == 1       \* largest magnitude of a coordinate of an input point
MaxSamples == 3     \* longest sample sequence passed to the batched tangents
MaxT == 3           \* largest sample parameter
MaxIter == 3        \* largest max_iterations passed to length()
MaxWidth == 2       \* widest parameter domain, in units of 2^(MaxIter+1)
MaxAxis == 4        \* largest semi-axis given to an Arc

-----------------------------------------------------------------------------
(* libc.math on the grid *)

\* pi in model units (quarter turns)
M_PI == 2

fabs(v) == IF v < 0 THEN -v ELSE v

\* cos and sin of an angle given in quarter turns
cos(t) == CASE t % 4 = 0 -> 1
            [] t % 4 = 2 -> -1
            [] OTHER -> 0

sin(t) == CASE t % 4 = 1 -> 1
            [] t % 4 = 3 -> -1
            [] OTHER -> 0

\* atan2 in quarter turns, for (y, x) on a coordinate axis
atan2(y, x) == CASE y = 0 /\ x >= 0 -> 0
                 [] y > 0 /\ x = 0 -> 1
                 [] y = 0 /\ x < 0 -> 2
                 [] y < 0 /\ x = 0 -> -1

\* the integer square root, by bisection between lo and hi (lo^2 <= n < hi^2);
\* it is exact on the perfect squares the model feeds it
RECURSIVE isqrt_between(_, _, _)
isqrt_between(n, lo, hi) ==
    IF hi - lo <= 1 THEN lo
    ELSE LET mid == (lo + hi) \div 2
         IN  IF mid * mid <= n THEN isqrt_between(n, mid, hi)
                               ELSE isqrt_between(n, lo, mid)

sqrt(n) == isqrt_between(n, 0, IF n < 46340 THEN n + 1 ELSE 46340)

IsSquare(n) == n >= 0 /\ sqrt(n) * sqrt(n) = n

-----------------------------------------------------------------------------
(* Angle reduction *)

\* a plausible slip: the negative branch adds pi instead of 2*pi
reduce_angle_half_turn(angle, center, positive) ==
    LET r0 == IF fabs(angle) > 2 * M_PI
                THEN angle - 2 * M_PI * (angle \div (2 * M_PI))
                ELSE angle
        r1 == IF center
                THEN (IF r0 < -M_PI THEN r0 + 2 * M_PI
                      ELSE IF r0 > M_PI THEN r0 - 2 * M_PI ELSE r0)
                ELSE r0
    IN  IF positive /\ r1 < 0 THEN r1 + M_PI ELSE r1

\* centring that folds every negative angle up by a turn
reduce_angle_fold_negative(angle, center, positive) ==
    LET r0 == IF fabs(angle) > 2 * M_PI
                THEN angle - 2 * M_PI * (angle \div (2 * M_PI))
                ELSE angle
        r1 == IF center
                THEN (IF r0 < 0 THEN r0 + 2 * M_PI
                      ELSE IF r0 > M_PI THEN r0 - 2 * M_PI ELSE r0)
                ELSE r0
    IN  IF positive /\ r1 < 0 THEN r1 + 2 * M_PI ELSE r1

\* cdef double __reduce_angle(double angle, bint center=True, bint positive=False)
\* (angle // (2 * M_PI) is Python's floor division)
__reduce_angle(angle, center, positive) ==
    LET r0 == IF fabs(angle) > 2 * M_PI
                THEN angle - 2 * M_PI * (angle \div (2 * M_PI))
                ELSE angle
        r1 == IF center
                THEN (IF r0 < -M_PI THEN r0 + 2 * M_PI
                      ELSE IF r0 > M_PI THEN r0 - 2 * M_PI ELSE r0)
                ELSE r0
    IN  IF positive /\ r1 < 0 THEN r1 + 2 * M_PI ELSE r1

\* def reduce_angle(angle, keep_sign=False), the branch for a number
reduce_angle(angle, keep_sign) == __reduce_angle(angle, FALSE, ~keep_sign)

AngleIdle ==
    /\ theta = 0 /\ center_flag = FALSE /\ positive_flag = FALSE
    /\ reduced1 = 0 /\ reduced2 = 0 /\ apc = "idle"

InitAngleInputs ==
    /\ theta \in -MaxAngle..MaxAngle
    /\ center_flag \in BOOLEAN
    /\ positive_flag \in BOOLEAN
    /\ reduced1 = 0 /\ reduced2 = 0
    /\ apc = "input"

\* the first reduction of the caller's angle
Reduce ==
    /\ apc = "input"
    /\ reduced1' = __reduce_angle(theta, center_flag, positive_flag)
    /\ apc' = "reduced"
    /\ UNCHANGED <<theta, center_flag, positive_flag, reduced2, coordVars, curve, tangentVars, meshVars, otherVars>>

\* the public entry point: center off, positive = not keep_sign
ReducePublic ==
    /\ apc = "input"
    /\ center_flag = FALSE
    /\ reduced1' = reduce_angle(theta, ~positive_flag)
    /\ apc' = "reduced_public"
    /\ UNCHANGED <<theta, center_flag, positive_flag, reduced2, coordVars, curve, tangentVars, meshVars, otherVars>>

\* reducing the result again with the same flags
ReduceAgain ==
    /\ apc = "reduced"
    /\ reduced2' = __reduce_angle(reduced1, center_flag, positive_flag)
    /\ apc' = "again"
    /\ UNCHANGED <<theta, center_flag, positive_flag, reduced1, coordVars, curve, tangentVars, meshVars, otherVars>>


-----------------------------------------------------------------------------
(* numpy arrays: a shape and the elements in C order *)

RECURSIVE Product(_)
Product(shape) == IF shape = <<>> THEN 1 ELSE Head(shape) * Product(Tail(shape))

\* ndarray.size
Size(a) == Product(a.shape)

\* what a call returns: a new array, or the exception it raised
Returned(shape, data) == [raised |-> "none", shape |-> shape, data |-> data]
Raised(exc) == [raised |-> exc, shape |-> <<>>, data |-> <<>>]

\* the outcome of a call: the value returned and the caller's array after the call
Outcome(r, a) == [res |-> r, arg |-> a]

\* rows i (from 0) of a flat array of consecutive triples
Row(data, i) == SubSeq(data, 3 * i + 1, 3 * i + 3)

RECURSIVE Concat(_)
Concat(rows) == IF rows = <<>> THEN <<>> ELSE Head(rows) \o Concat(Tail(rows))

\* cdef double[:] __extend_vector_dimensions(double[:] v, Py_ssize_t s)
__extend_vector_dimensions(v, s) ==
    [i \in 1..s |-> IF i <= Len(v) THEN v[i] ELSE 0]

\* the local name a point function works on: the caller's buffer itself, or a
\* zero-padded copy when it has fewer than 3 elements
PointBuffer(v) == IF Len(v) < 3 THEN __extend_vector_dimensions(v, 3) ELSE v

-----------------------------------------------------------------------------
(* The per-point arithmetic; each returns [out, buf]: the triple computed  *)
(* and the buffer it worked on as the call leaves it.                      *)

CartToSph(p) ==
    LET xy == p[1] * p[1] + p[2] * p[2]
    IN  [out |-> << sqrt(xy + p[3] * p[3]),
                    atan2(sqrt(xy), p[3]),
                    __reduce_angle(atan2(p[2], p[1]), FALSE, TRUE) >>,
         buf |-> p]

SphToCart(p) ==
    LET q  == [p EXCEPT ![3] = __reduce_angle(p[3], FALSE, TRUE)]
        xy == q[1] * sin(q[2])
    IN  [out |-> << xy * cos(q[3]), xy * sin(q[3]), q[1] * cos(q[2]) >>,
         buf |-> q]

CartToCyl(p) ==
    [out |-> << sqrt(p[1] * p[1] + p[2] * p[2]), atan2(p[2], p[1]), p[3] >>,
     buf |-> p]

CylToCart(p) ==
    LET q == [p EXCEPT ![2] = __reduce_angle(p[2], FALSE, TRUE)]
    IN  [out |-> << q[1] * cos(q[2]), q[1] * sin(q[2]), q[3] >>,
         buf |-> q]

SphToCyl(p) ==
    [out |-> << p[1] * sin(p[2]), p[3], p[1] * cos(p[2]) >>, buf |-> p]

CylToSph(p) ==
    [out |-> << sqrt(p[1] * p[1] + p[3] * p[3]), atan2(p[1], p[3]), p[2] >>,
     buf |-> p]

\* what a point function leaves behind: it pads a short argument into a
\* local copy, so only a caller's buffer of 3 elements is written through
PointResult(v, w) == [out |-> w.out, buf |-> IF Len(v) < 3 THEN v ELSE w.buf]

\* what a points function leaves behind after for i in range(0, s, 3)
PointsResult(w) ==
    [out |-> Concat([i \in 1..Len(w) |-> w[i].out]),
     buf |-> Concat([i \in 1..Len(w) |-> w[i].buf])]

\* the triples of a flat array, in order
Triples(v) == [i \in 1..(Len(v) \div 3) |-> Row(v, i - 1)]

\* cdef double[:] __cartesian_to_spherical_point(double[:] xyz)
__cartesian_to_spherical_point(xyz) ==
    PointResult(xyz, CartToSph(PointBuffer(xyz)))

\* cdef double[:] __cartesian_to_spherical_points(double[:] xyz)
__cartesian_to_spherical_points(xyz) ==
    PointsResult([i \in 1..(Len(xyz) \div 3) |-> CartToSph(Triples(xyz)[i])])

\* cdef double[:] __spherical_to_cartesian_point(double[:] r_theta_phi)
__spherical_to_cartesian_point(r_theta_phi) ==
    PointResult(r_theta_phi, SphToCart(PointBuffer(r_theta_phi)))

\* cdef double[:] __spherical_to_cartesian_points(double[:] r_theta_phi)
__spherical_to_cartesian_points(r_theta_phi) ==
    PointsResult([i \in 1..(Len(r_theta_phi) \div 3) |-> SphToCart(Triples(r_theta_phi)[i])])

\* cdef double[:] __cartesian_to_cylindrical_point(double[:] xyz)
__cartesian_to_cylindrical_point(xyz) ==
    PointResult(xyz, CartToCyl(PointBuffer(xyz)))

\* cdef double[:] __cartesian_to_cylindrical_points(double[:] xyz)
__cartesian_to_cylindrical_points(xyz) ==
    PointsResult([i \in 1..(Len(xyz) \div 3) |-> CartToCyl(Triples(xyz)[i])])

\* cdef double[:] __cylindrical_to_cartesian_point(double[:] rho_phi_z)
__cylindrical_to_cartesian_point(rho_phi_z) ==
    PointResult(rho_phi_z, CylToCart(PointBuffer(rho_phi_z)))

\* cdef double[:] __cylindrical_to_cartesian_points(double[:] rho_phi_z)
__cylindrical_to_cartesian_points(rho_phi_z) ==
    PointsResult([i \in 1..(Len(rho_phi_z) \div 3) |-> CylToCart(Triples(rho_phi_z)[i])])

\* cdef double[:] __spherical_to_cylindrical_point(double[:] r_theta_phi)
__spherical_to_cylindrical_point(r_theta_phi) ==
    PointResult(r_theta_phi, SphToCyl(PointBuffer(r_theta_phi)))

\* cdef double[:] __spherical_to_cylindrical_points(double[:] r_theta_phi)
__spherical_to_cylindrical_points(r_theta_phi) ==
    PointsResult([i \in 1..(Len(r_theta_phi) \div 3) |-> SphToCyl(Triples(r_theta_phi)[i])])

\* cdef double[:] __cylindrical_to_spherical_point(double[:] rho_phi_z)
__cylindrical_to_spherical_point(rho_phi_z) ==
    PointResult(rho_phi_z, CylToSph(PointBuffer(rho_phi_z)))

\* cdef double[:] __cylindrical_to_spherical_points(double[:] rho_phi_z)
__cylindrical_to_spherical_points(rho_phi_z) ==
    PointsResult([i \in 1..(Len(rho_phi_z) \div 3) |-> CylToSph(Triples(rho_phi_z)[i])])

\* an argument binds to the typed memoryview double[:] only when it has one
\* dimension; Cython raises ValueError otherwise
BindsToMemoryview1D(a) == Len(a.shape) = 1

\* a slip in the shape test: the width of the rows is not compared with 3
IsPointsShapeAnyWidth(a) == Len(a.shape) = 2

\* len(xyz.shape) == 2 and xyz.shape[1] == 3
IsPointsShape(a) == Len(a.shape) = 2 /\ a.shape[2] = 3

\* return np.asarray(point function's result): a new array of 3 elements
ReturnPoint(a, w) == Outcome(Returned(<<3>>, w.out), [a EXCEPT !.data = w.buf])

\* return np.asarray(points function's result).reshape(a.shape)
ReturnPoints(a, w) == Outcome(Returned(a.shape, w.out), [a EXCEPT !.data = w.buf])

\* raise ValueError: nothing is returned and the argument is untouched
Reject(a) == Outcome(Raised("ValueError"), a)

\* def cartesian_to_spherical(xyz)
cartesian_to_spherical(xyz) ==
    IF Size(xyz) <= 3
      THEN IF BindsToMemoryview1D(xyz)
             THEN ReturnPoint(xyz, __cartesian_to_spherical_point(xyz.data))
             ELSE Reject(xyz)
      ELSE IF IsPointsShape(xyz)
             THEN ReturnPoints(xyz, __cartesian_to_spherical_points(xyz.data))
             ELSE Reject(xyz)

\* def spherical_to_cartesian(r_theta_phi)
spherical_to_cartesian(r_theta_phi) ==
    IF Size(r_theta_phi) <= 3
      THEN IF BindsToMemoryview1D(r_theta_phi)
             THEN ReturnPoint(r_theta_phi, __spherical_to_cartesian_point(r_theta_phi.data))
             ELSE Reject(r_theta_phi)
      ELSE IF IsPointsShape(r_theta_phi)
             THEN ReturnPoints(r_theta_phi, __spherical_to_cartesian_points(r_theta_phi.data))
             ELSE Reject(r_theta_phi)

\* def cartesian_to_cylindrical(xyz)
cartesian_to_cylindrical(xyz) ==
    IF Size(xyz) <= 3
      THEN IF BindsToMemoryview1D(xyz)
             THEN ReturnPoint(xyz, __cartesian_to_cylindrical_point(xyz.data))
             ELSE Reject(xyz)
      ELSE IF IsPointsShape(xyz)
             THEN ReturnPoints(xyz, __cartesian_to_cylindrical_points(xyz.data))
             ELSE Reject(xyz)

\* def cylindrical_to_cartesian(rho_phi_z)
cylindrical_to_cartesian(rho_phi_z) ==
    IF Size(rho_phi_z) <= 3
      THEN IF BindsToMemoryview1D(rho_phi_z)
             THEN ReturnPoint(rho_phi_z, __cylindrical_to_cartesian_point(rho_phi_z.data))
             ELSE Reject(rho_phi_z)
      ELSE IF IsPointsShape(rho_phi_z)
             THEN ReturnPoints(rho_phi_z, __cylindrical_to_cartesian_points(rho_phi_z.data))
             ELSE Reject(rho_phi_z)

\* def spherical_to_cylindrical(r_theta_phi)
spherical_to_cylindrical(r_theta_phi) ==
    IF Size(r_theta_phi) <= 3
      THEN IF BindsToMemoryview1D(r_theta_phi)
             THEN ReturnPoint(r_theta_phi, __spherical_to_cylindrical_point(r_theta_phi.data))
             ELSE Reject(r_theta_phi)
      ELSE IF IsPointsShape(r_theta_phi)
             THEN ReturnPoints(r_theta_phi, __spherical_to_cylindrical_points(r_theta_phi.data))
             ELSE Reject(r_theta_phi)

\* def cylindrical_to_spherical(rho_phi_z)
cylindrical_to_spherical(rho_phi_z) ==
    IF Size(rho_phi_z) <= 3
      THEN IF BindsToMemoryview1D(rho_phi_z)
             THEN ReturnPoint(rho_phi_z, __cylindrical_to_spherical_point(rho_phi_z.data))
             ELSE Reject(rho_phi_z)
      ELSE IF IsPointsShape(rho_phi_z)
             THEN ReturnPoints(rho_phi_z, __cylindrical_to_spherical_points(rho_phi_z.data))
             ELSE Reject(rho_phi_z)

Functions == {"cartesian_to_spherical", "spherical_to_cartesian",
              "cartesian_to_cylindrical", "cylindrical_to_cartesian",
              "spherical_to_cylindrical", "cylindrical_to_spherical"}

\* the call of the public function named f
Call(f, a) ==
    CASE f = "cartesian_to_spherical" -> cartesian_to_spherical(a)
      [] f = "spherical_to_cartesian" -> spherical_to_cartesian(a)
      [] f = "cartesian_to_cylindrical" -> cartesian_to_cylindrical(a)
      [] f = "cylindrical_to_cartesian" -> cylindrical_to_cartesian(a)
      [] f = "spherical_to_cylindrical" -> spherical_to_cylindrical(a)
      [] f = "cylindrical_to_spherical" -> cylindrical_to_spherical(a)

-----------------------------------------------------------------------------
(* The inputs of the conversions *)

\* points on a coordinate axis (their spherical and cylindrical angles are
\* whole quarter turns, their norms whole numbers)
OnAxis(p) == Cardinality({i \in 1..3 : p[i] # 0}) <= 1

AxisPoints == {p \in [1..3 -> -MaxCoord..MaxCoord] : OnAxis(p)}

\* triples off the axes, read as (r, theta, phi) or (rho, phi, z); their angles
\* lie below 0 and above 2*pi
AngleTriples == { <<MaxCoord, 1, -1>>, <<MaxCoord, 2 * M_PI + 1, 1>> }

PointSet == AxisPoints \cup AngleTriples

Shapes == {<<>>} \cup {<<n>> : n \in 0..MaxLen}
                 \cup {<<n, m>> : n \in 1..MaxRows, m \in 1..3}

DataOf(n) ==
    LET k == (n + 2) \div 3
    IN  { SubSeq(Concat(ps), 1, n) : ps \in [1..k -> PointSet] }

Arrays == UNION { {[shape |-> sh, data |-> d] : d \in DataOf(Product(sh))} : sh \in Shapes }

\* the rows a call computes on (none when the call raises)
RowsOf(a) ==
    IF Size(a) <= 3
      THEN IF BindsToMemoryview1D(a) THEN {PointBuffer(a.data)} ELSE {}
      ELSE IF IsPointsShape(a)
             THEN {Row(a.data, i) : i \in 0..(Size(a) \div 3 - 1)}
             ELSE {}

\* the model evaluates sqrt and atan2 only where they are exact
InDomain(f, p) ==
    CASE f \in {"cartesian_to_spherical", "cartesian_to_cylindrical"} -> OnAxis(p)
      [] f = "cylindrical_to_spherical" -> p[1] = 0 \/ p[3] = 0
      [] OTHER -> TRUE

NoResult == Raised("not called")

CoordIdle ==
    /\ arr = [shape |-> <<0>>, data |-> <<>>] /\ arr0 = arr
    /\ fn = "none" /\ res = NoResult /\ back = NoResult /\ cpc = "idle"

InitCoordInputs ==
    /\ arr \in Arrays
    /\ arr0 = arr
    /\ fn = "none" /\ res = NoResult /\ back = NoResult
    /\ cpc = "input"

\* the caller converts its array with one of the six functions
CallConversion ==
    /\ cpc = "input"
    /\ \E f \in Functions :
         /\ \A p \in RowsOf(arr) : InDomain(f, p)
         /\ fn' = f
         /\ res' = Call(f, arr).res
         /\ arr' = Call(f, arr).arg
    /\ cpc' = "converted"
    /\ UNCHANGED <<arr0, back, angleVars, curve, tangentVars, meshVars, otherVars>>

Inverse(f) == CASE f = "cartesian_to_spherical" -> "spherical_to_cartesian"
                [] f = "cartesian_to_cylindrical" -> "cylindrical_to_cartesian"

\* the caller converts the result of a conversion from cartesian back
CallInverse ==
    /\ cpc = "converted"
    /\ fn \in {"cartesian_to_spherical", "cartesian_to_cylindrical"}
    /\ res.raised = "none"
    /\ back' = Call(Inverse(fn), [shape |-> res.shape, data |-> res.data]).res
    /\ cpc' = "back"
    /\ UNCHANGED <<arr, arr0, fn, res, angleVars, curve, tangentVars, meshVars, otherVars>>

-----------------------------------------------------------------------------
(* Curves.  A curve object is a record; kind names its class:              *)
(*   "ParametricCurve"  the base class (the zero curve),                   *)
(*   "Line", "Arc"      the classes of the module,                         *)
(*   "Power"            a caller's subclass that overrides the three point *)
(*                      functions only: x = a * t^degree, y = b * t,       *)
(*                      z = c, and inherits the finite differences.        *)
(* An Arc's parameter is an angle, counted in quarter turns.               *)

Curve(kind, origin, a, b, c, direction, degree, start, stop) ==
    [kind |-> kind, origin |-> origin, a |-> a, b |-> b, c |-> c,
     direction |-> direction, degree |-> degree, start |-> start, stop |-> stop]

\* cpdef double x_point(self, double t), by class
x_point(self, t) ==
    CASE self.kind = "Line" -> self.origin[1] + self.a * t
      [] self.kind = "Arc" -> self.a * cos(t)
      [] self.kind = "Power" -> self.a * t ^ self.degree
      [] OTHER -> 0

y_point(self, t) ==
    CASE self.kind = "Line" -> self.origin[2] + self.b * t
      [] self.kind = "Arc" -> self.direction * self.b * sin(t)
      [] self.kind = "Power" -> self.b * t
      [] OTHER -> 0

z_point(self, t) ==
    CASE self.kind = "Line" -> self.origin[3] + self.c * t
      [] self.kind = "Power" -> self.c
      [] OTHER -> 0

\* cpdef double[:, :] generate_points(self, double[:] t)
generate_points(self, t) ==
    [i \in 1..Len(t) |-> << x_point(self, t[i]), y_point(self, t[i]), z_point(self, t[i]) >>]

\* an x tangent that ignores the curve
tangent_x_point_zero(self, t, step, left, right) == 0

\* ParametricCurve.tangent_x_point: the finite differences of the base class
\* (step / 2 and the quotient by step are exact for the steps the model passes)
base_tangent_x_point(self, t, step, left, right) ==
    LET step2 == step \div 2
    IN  IF left /\ right
          THEN (x_point(self, t + step2) - x_point(self, t - step2)) \div step
          ELSE IF left
            THEN (x_point(self, t) - x_point(self, t - step)) \div step
            ELSE (x_point(self, t + step) - x_point(self, t)) \div step

base_tangent_y_point(self, t, step, left, right) ==
    LET step2 == step \div 2
    IN  IF left /\ right
          THEN (y_point(self, t + step2) - y_point(self, t - step2)) \div step
          ELSE IF left
            THEN (y_point(self, t) - y_point(self, t - step)) \div step
            ELSE (y_point(self, t + step) - y_point(self, t)) \div step

base_tangent_z_point(self, t, step, left, right) ==
    LET step2 == step \div 2
    IN  IF left /\ right
          THEN (z_point(self, t + step2) - z_point(self, t - step2)) \div step
          ELSE IF left
            THEN (z_point(self, t) - z_point(self, t - step)) \div step
            ELSE (z_point(self, t + step) - z_point(self, t)) \div step

\* cpdef double tangent_x_point(self, t, step, left=True, right=True), by class
tangent_x_point(self, t, step, left, right) ==
    CASE self.kind = "Line" -> self.a
      [] self.kind = "Arc" -> (-self.a) * sin(t)
      [] OTHER -> base_tangent_x_point(self, t, step, left, right)

tangent_y_point(self, t, step, left, right) ==
    CASE self.kind = "Line" -> self.b
      [] self.kind = "Arc" -> self.direction * self.b * cos(t)
      [] OTHER -> base_tangent_y_point(self, t, step, left, right)

tangent_z_point(self, t, step, left, right) ==
    CASE self.kind = "Line" -> self.c
      [] self.kind = "Arc" -> 0
      [] OTHER -> base_tangent_z_point(self, t, step, left, right)

\* a value reduced modulo 2^32, as the two 16-bit halves of the unsigned int
UInt32(x) == [hi |-> (x \div 65536) % 65536, lo |-> x % 65536]

\* w + 1 in unsigned int arithmetic
UInt32Succ(w) ==
    IF w.lo = 65535 THEN [hi |-> (w.hi + 1) % 65536, lo |-> 0]
    ELSE [hi |-> w.hi, lo |-> w.lo + 1]

\* unsigned int s = t.shape[0] - 1: the C conversion of the signed difference
UnsignedLastIndex(t) == UInt32(Len(t) - 1)

\* the value of s as an index, where t.shape[0] - 1 is not negative
LastIndex(t) == Len(t) - 1

\* s is not the number t.shape[0] - 1
Wraps(t) == UnsignedLastIndex(t) # [hi |-> 0, lo |-> LastIndex(t)]

\* the indices every call uses before its loop: t[0], result[0], t[s], result[s]
AccessedEnds(t) == { UInt32(0), UnsignedLastIndex(t) }

\* rows of np.empty((s + 1, 3)) and entries of clone(template, s + 1)
Allocated(t) == UInt32Succ(UnsignedLastIndex(t))

\* cpdef double[:] tangent_x(self, double[:] t, double step): entry 0 forward,
\* entry s backward, entries 1..s-1 central at t[i]   (t[i] is t[i + 1] here)
tangent_x(self, t, step) ==
    LET s == LastIndex(t)
    IN  [j \in 1..(s + 1) |->
           IF j - 1 = s THEN tangent_x_point(self, t[s + 1], step, TRUE, FALSE)
           ELSE IF j - 1 = 0 THEN tangent_x_point(self, t[1], step, FALSE, TRUE)
           ELSE tangent_x_point(self, t[j], step, TRUE, TRUE)]

tangent_y(self, t, step) ==
    LET s == LastIndex(t)
    IN  [j \in 1..(s + 1) |->
           IF j - 1 = s THEN tangent_y_point(self, t[s + 1], step, TRUE, FALSE)
           ELSE IF j - 1 = 0 THEN tangent_y_point(self, t[1], step, FALSE, TRUE)
           ELSE tangent_y_point(self, t[j], step, TRUE, TRUE)]

tangent_z(self, t, step) ==
    LET s == LastIndex(t)
    IN  [j \in 1..(s + 1) |->
           IF j - 1 = s THEN tangent_z_point(self, t[s + 1], step, TRUE, FALSE)
           ELSE IF j - 1 = 0 THEN tangent_z_point(self, t[1], step, FALSE, TRUE)
           ELSE tangent_z_point(self, t[j], step, TRUE, TRUE)]

\* cpdef double[:, :] tangent(self, double[:] t, double step): rows 0 and s as
\* above; the loop over 1..s-1 passes t[s] to the three point functions
tangent(self, t, step) ==
    LET s == LastIndex(t)
    IN  [j \in 1..(s + 1) |->
           IF j - 1 = s
             THEN << tangent_x_point(self, t[s + 1], step, TRUE, FALSE),
                     tangent_y_point(self, t[s + 1], step, TRUE, FALSE),
                     tangent_z_point(self, t[s + 1], step, TRUE, FALSE) >>
           ELSE IF j - 1 = 0
             THEN << tangent_x_point(self, t[1], step, FALSE, TRUE),
                     tangent_y_point(self, t[1], step, FALSE, TRUE),
                     tangent_z_point(self, t[1], step, FALSE, TRUE) >>
           ELSE << tangent_x_point(self, t[s + 1], step, TRUE, TRUE),
                   tangent_y_point(self, t[s + 1], step, TRUE, TRUE),
                   tangent_z_point(self, t[s + 1], step, TRUE, TRUE) >>]

Origin0 == <<0, 0, 0>>

\* the curves the batched tangents are called on
TangentCurves ==
    { Curve("ParametricCurve", Origin0, 0, 0, 0, 1, 0, 0, 0),
      Curve("Line", Origin0, 3, 4, 0, 1, 0, 0, 1),
      Curve("Arc", Origin0, 2, 1, 0, 1, 0, 0, 2 * 2 * M_PI),
      Curve("Arc", Origin0, 1, 1, 0, -1, 0, 0, 2 * 2 * M_PI),
      Curve("Power", Origin0, 1, 1, 1, 1, 2, 0, MaxT),
      Curve("Power", Origin0, 2, 0, 0, 1, 3, 0, MaxT) }

SampleSequences == UNION { [1..n -> 0..MaxT] : n \in 0..MaxSamples }

\* the finite-difference steps passed (even, so that step / 2 is whole)
TangentSteps == {2, 4}

NotCalledYet == [batched |-> "not called", per_axis |-> "not called"]

\* what a call of tangent() can do once it indexes outside t and result with
\* bounds checking off: end the process, or come back with what it allocated
UndefinedOutcomes == {"crashed", "returned"}

TangentIdle ==
    /\ samples = <<>> /\ tstep = 0 /\ tan_rows = <<>>
    /\ tan_x = <<>> /\ tan_y = <<>> /\ tan_z = <<>>
    /\ tan_s = UInt32(0) /\ tan_outcome = NotCalledYet /\ tpc = "idle"

InitTangentInputs ==
    /\ curve \in TangentCurves
    /\ samples \in SampleSequences
    /\ tstep \in TangentSteps
    /\ tan_rows = <<>> /\ tan_x = <<>> /\ tan_y = <<>> /\ tan_z = <<>>
    /\ tan_s = UInt32(0) /\ tan_outcome = NotCalledYet
    /\ tpc = "input"

\* the caller asks for the tangents of its samples, batched and per coordinate.
\* With s wrapped, tangent() (bounds checking off) indexes t and result out of
\* bounds, and tangent_x, tangent_y, tangent_z (bounds checking on) raise
\* IndexError at t[0]
CallTangents ==
    /\ tpc = "input"
    /\ tan_s' = UnsignedLastIndex(samples)
    /\ IF ~Wraps(samples)
         THEN /\ tan_rows' = tangent(curve, samples, tstep)
              /\ tan_x' = tangent_x(curve, samples, tstep)
              /\ tan_y' = tangent_y(curve, samples, tstep)
              /\ tan_z' = tangent_z(curve, samples, tstep)
              /\ tan_outcome' = [batched |-> "returned", per_axis |-> "returned"]
         ELSE /\ \E o \in UndefinedOutcomes :
                   tan_outcome' = [batched |-> o, per_axis |-> "IndexError"]
              /\ tan_rows' = [j \in 1..Allocated(samples).lo |-> <<0, 0, 0>>]
              /\ tan_x' = <<>> /\ tan_y' = <<>> /\ tan_z' = <<>>
    /\ tpc' = "called"
    /\ UNCHANGED <<samples, tstep, curve, angleVars, coordVars, meshVars, otherVars>>

NoCurve == Curve("ParametricCurve", Origin0, 0, 0, 0, 1, 0, 0, 0)

-----------------------------------------------------------------------------
(* An Arc after construction: its property setters and eccentricity()      *)

Maximum(x, y) == IF x >= y THEN x ELSE y
Minimum(x, y) == IF x <= y THEN x ELSE y

\* Arc.__init__(a, b, start, stop, right): self.__a = max(a, b),
\* self.__b = min(a, b), direction 1 or -1
Arc__init__(a, b, start, stop, right) ==
    Curve("Arc", Origin0, Maximum(a, b), Minimum(a, b), 0,
          IF right THEN 1 ELSE -1, 0, start, stop)

\* @a.setter: self.__a = a
Arc_set_a(self, a) == [self EXCEPT !.a = a]

\* @b.setter: self.__b = b
Arc_set_b(self, b) == [self EXCEPT !.b = b]

\* @right.setter
Arc_set_right(self, right) == [self EXCEPT !.direction = IF right THEN 1 ELSE -1]

\* cpdef double eccentricity(self): sqrt((a*a - b*b) / (a*a)); the model keeps
\* the fraction under the root, and libm's sqrt of a negative number is NaN
eccentricity(self) ==
    LET numerator == self.a * self.a - self.b * self.b
        denominator == self.a * self.a
    IN  [radicand |-> <<numerator, denominator>>, nan |-> numerator < 0]

NotCalled == [radicand |-> <<0, 1>>, nan |-> FALSE]

ArcIdle == arc_ecc = NotCalled

\* no second pair of calls is in progress
FramesIdle == frames = <<>>

-----------------------------------------------------------------------------
(* SuperposedField: the fields property.  A Field carries a type; the list  *)
(* assigned may also hold objects that are no Field.                        *)

MaxFields == 3      \* longest list assigned to SuperposedField.fields

None == "None"
FieldTypes == {"electric", "magnetic"}

\* what a list assigned to fields may hold: Fields of either type and an int
Elements ==
    { [class |-> "Field", type |-> ty] : ty \in FieldTypes }
        \cup { [class |-> "int", type |-> None] }

FieldLists == UNION { [1..n -> Elements] : n \in 0..MaxFields }

\* isinstance(field, Field)
isinstance_Field(field) == field.class = "Field"

\* the for loop of the setter over the rest of the list, self.type being ty:
\* the type it leaves on the object and what it raised
RECURSIVE fields_loop(_, _)
fields_loop(ty, rest) ==
    IF rest = <<>> THEN [type |-> ty, raised |-> "none"]
    ELSE LET field == Head(rest)
         IN  IF ~isinstance_Field(field)
               THEN [type |-> ty, raised |-> "ValueError"]
               ELSE LET ty1 == IF ty = None THEN field.type ELSE ty
                    IN  IF ty1 # field.type
                          THEN [type |-> ty1, raised |-> "ValueError"]
                          ELSE fields_loop(ty1, Tail(rest))

\* @fields.setter def fields(self, list fields): self.__fields is assigned
\* only when the loop raised nothing
fields_setter(self, fields) ==
    LET loop == fields_loop(self.type, fields)
    IN  [self |-> [type |-> loop.type,
                   fields |-> IF loop.raised = "none" THEN fields ELSE self.fields],
         raised |-> loop.raised]

\* SuperposedField.__init__(name, fields): __fields and type start as None
\* (no list stored: <<>>), the setter runs, then Field.__init__ is given
\* self.type; a constructor that raises leaves no object
SuperposedField__init__(fields) ==
    fields_setter([type |-> None, fields |-> <<>>], fields)

NoField == [type |-> None, fields |-> <<>>]

FieldIdle ==
    /\ sf = NoField /\ sf_before = NoField
    /\ sf_assigned = <<>> /\ sf_raised = "idle"

\* superposed.fields = fields
AssignFields ==
    /\ sf_raised # "idle"
    /\ \E fields \in FieldLists :
         /\ sf' = fields_setter(sf, fields).self
         /\ sf_raised' = fields_setter(sf, fields).raised
         /\ sf_assigned' = fields
    /\ sf_before' = sf
    /\ UNCHANGED <<curve, arcVars, frames, angleVars, coordVars, tangentVars, meshVars>>

OtherIdle == ArcIdle /\ FramesIdle /\ FieldIdle

\* the semi-axes passed to the constructor and to the setters
Axes == 1..MaxAxis

\* arc.a = a
SetA ==
    /\ \E a \in Axes : curve' = Arc_set_a(curve, a)
    /\ UNCHANGED <<arc_ecc, frames, fieldVars, angleVars, coordVars, tangentVars, meshVars>>

\* arc.b = b
SetB ==
    /\ \E b \in Axes : curve' = Arc_set_b(curve, b)
    /\ UNCHANGED <<arc_ecc, frames, fieldVars, angleVars, coordVars, tangentVars, meshVars>>

\* arc.right = right
SetRight ==
    /\ \E right \in BOOLEAN : curve' = Arc_set_right(curve, right)
    /\ UNCHANGED <<arc_ecc, frames, fieldVars, angleVars, coordVars, tangentVars, meshVars>>

\* arc.eccentricity()
CallEccentricity ==
    /\ arc_ecc' = eccentricity(curve)
    /\ UNCHANGED <<curve, frames, fieldVars, angleVars, coordVars, tangentVars, meshVars>>

-----------------------------------------------------------------------------
(* The mesh collaborator (BDMesh): uniform meshes and the tree of meshes.  *)
(* A mesh is a record; its nodes are physical_boundary_1 + i * step.       *)

Zeros(n) == [i \in 1..n |-> 0]

\* Mesh1DUniform(b1, b2, boundary_condition_1=0.0, boundary_condition_2=0.0,
\* physical_step=...): solution and residual start as zeros; a step that is
\* not positive gives the two boundary nodes
Mesh1DUniform(b1, b2, physical_step) ==
    LET num == IF physical_step > 0
                 THEN (b2 - b1 + physical_step - 1) \div physical_step + 1
                 ELSE 2
    IN  [physical_boundary_1 |-> b1, physical_boundary_2 |-> b2,
         physical_step |-> physical_step, num |-> num,
         solution |-> Zeros(num), residual |-> Zeros(num)]

\* mesh.physical_nodes (index i of the program is index i + 1 here)
physical_nodes(mesh) ==
    [i \in 1..mesh.num |->
        IF i = mesh.num THEN mesh.physical_boundary_2
        ELSE mesh.physical_boundary_1 + (i - 1) * mesh.physical_step]

\* mesh.to_physical(np.array([mesh.__local_nodes[k]]))[0], k counted from 0
to_physical_node(mesh, k) == physical_nodes(mesh)[k + 1]

\* TreeMesh1DUniform(root_mesh, refinement_coefficient=2, aligned=True)
TreeMesh1DUniform(root_mesh, coefficient) ==
    [tree |-> (0 :> <<root_mesh>>),
     refinement_coefficient |-> coefficient,
     root_step |-> root_mesh.physical_step]

\* meshes_tree.levels
levels(t) == DOMAIN t.tree

Max(S) == CHOOSE m \in S : \A o \in S : o <= m

\* the level a mesh of the given step belongs to: the root's step divided
\* level times by the refinement coefficient
LevelOfStep(t, step) ==
    CHOOSE l \in 0..(Max(levels(t)) + 1) :
        step * t.refinement_coefficient ^ l = t.root_step

\* meshes_tree.add_mesh(mesh): appended to the list of its level
add_mesh(t, mesh) ==
    LET l == LevelOfStep(t, mesh.physical_step)
    IN  [t EXCEPT !.tree = IF l \in DOMAIN t.tree
                             THEN [t.tree EXCEPT ![l] = Append(@, mesh)]
                             ELSE t.tree @@ (l :> <<mesh>>)]

\* the segments [x, x + step] of a mesh, by the index of their right node
Segments(mesh) == 2..mesh.num

\* segment i of mesh m lies inside a mesh of a level finer than l
Superseded(t, l, m, i) ==
    LET n == physical_nodes(m)
    IN  /\ n[i - 1] < n[i]
        /\ \E l2 \in levels(t) :
             /\ l2 > l
             /\ \E k \in 1..Len(t.tree[l2]) :
                  /\ t.tree[l2][k].physical_boundary_1 <= n[i - 1]
                  /\ n[i] <= t.tree[l2][k].physical_boundary_2

\* a mesh all of whose segments lie inside finer meshes
CoarseDuplicate(t, l, m) == \A i \in Segments(m) : Superseded(t, l, m, i)

\* meshes_tree.remove_coarse_duplicates(): every mesh fully superseded by
\* finer meshes leaves the list of its level (the list object is kept)
remove_coarse_duplicates(t) ==
    [t EXCEPT !.tree =
        [l \in DOMAIN t.tree |->
            SelectSeq(t.tree[l], LAMBDA m : ~CoarseDuplicate(t, l, m))]]

\* the segments the flattened mesh is made of: those of every mesh that no
\* finer mesh supersedes, each with the solution and residual of its right node
LeafSegments(t) ==
    UNION { UNION { { [lo |-> physical_nodes(t.tree[l][k])[i - 1],
                       hi |-> physical_nodes(t.tree[l][k])[i],
                       solution |-> t.tree[l][k].solution[i],
                       residual |-> t.tree[l][k].residual[i],
                       level |-> l, mesh |-> k] :
                      i \in { j \in Segments(t.tree[l][k]) :
                                ~Superseded(t, l, t.tree[l][k], j) } } :
                    k \in 1..Len(t.tree[l]) } :
            l \in levels(t) }

Before(p, q) == p.lo < q.lo \/ (p.lo = q.lo /\ p.hi <= q.hi)

RECURSIVE Ordered(_)
Ordered(S) ==
    IF S = {} THEN <<>>
    ELSE LET first == CHOOSE p \in S : \A q \in S : Before(p, q)
         IN  <<first>> \o Ordered(S \ {first})

\* meshes_tree.flatten(): one mesh whose nodes are the ends of the leaf
\* segments in ascending order; node 0 carries no segment
flatten(t) ==
    LET segs == Ordered(LeafSegments(t))
    IN  [num |-> Len(segs) + 1,
         segments |-> segs,
         solution |-> <<0>> \o [i \in 1..Len(segs) |-> segs[i].solution],
         residual |-> <<0>> \o [i \in 1..Len(segs) |-> segs[i].residual]]

\* refinement_points(mesh, precision): one index pair per maximal run of
\* nodes whose residual exceeds the threshold, from the node before the run
\* to its last node (indices counted from 0)
refinement_points(mesh, threshold) ==
    LET over(i) == i \in 1..mesh.num /\ mesh.residual[i] > threshold
        starts == { i \in 1..mesh.num : over(i) /\ ~over(i - 1) }
        last(i) == CHOOSE j \in i..mesh.num :
                      /\ \A k \in i..j : over(k)
                      /\ ~over(j + 1)
        pairs == { <<i - 2, last(i) - 1>> : i \in starts }
        RECURSIVE ascending(_)
        ascending(S) ==
            IF S = {} THEN <<>>
            ELSE LET p == CHOOSE x \in S : \A y \in S : x[1] <= y[1]
                 IN  <<p>> \o ascending(S \ {p})
    IN  ascending(pairs)

-----------------------------------------------------------------------------
(* The length estimator of ParametricCurve                                 *)

RECURSIVE SumSeq(_)
SumSeq(q) == IF q = <<>> THEN 0 ELSE Head(q) + SumSeq(Tail(q))

Norm3(v) == sqrt(v[1] * v[1] + v[2] * v[2] + v[3] * v[3])

\* cdef double __length_tangent_mesh(self, Mesh1DUniform mesh, double tangent_step):
\* writes mesh.solution and mesh.residual and returns the accumulated length
__length_tangent_mesh(self, mesh, step) ==
    LET t == physical_nodes(mesh)
        xyz == generate_points(self, t)
        xyz_t == tangent(self, t, step)
        result_p(i) == Norm3(<<xyz[i + 1][1] - xyz[i][1],
                               xyz[i + 1][2] - xyz[i][2],
                               xyz[i + 1][3] - xyz[i][3]>>)
        result_t(i) == ((t[i + 1] - t[i]) * (Norm3(xyz_t[i]) + Norm3(xyz_t[i + 1]))) \div 2
        solution == [i \in 1..mesh.num |-> IF i = 1 THEN 0 ELSE result_t(i - 1)]
        error == [i \in 1..mesh.num |->
                    IF i = 1 THEN 0 ELSE fabs(result_t(i - 1) - result_p(i - 1))]
    IN  [mesh |-> [mesh EXCEPT !.solution = solution, !.residual = error],
         result_t_acc |-> SumSeq(solution)]

\* refinement_coefficient=2 of the tree the estimator builds
refinement_coefficient == 2

\* root with a quarter of the domain as its step
root_mesh_quarter_step(self) ==
    Mesh1DUniform(self.start, self.stop, (self.stop - self.start) \div 4)

\* root over the first half of the domain only
root_mesh_half(self) ==
    Mesh1DUniform(self.start, self.start + (self.stop - self.start) \div 2,
                  (self.stop - self.start) \div 2)

\* root_mesh = Mesh1DUniform(self.__start, self.__stop, ...,
\*                           physical_step=(self.__stop - self.__start) / 2.0)
root_mesh(self) ==
    Mesh1DUniform(self.start, self.stop, (self.stop - self.start) \div 2)

\* the tree mesh_tree starts from
InitialTree(self) == TreeMesh1DUniform(root_mesh(self), refinement_coefficient)

\* child from the first node of the flagged run, not from the node before it
refinement_mesh_short(mesh, pair, coefficient) ==
    Mesh1DUniform(to_physical_node(mesh, pair[1] + 1),
                  to_physical_node(mesh, pair[2]),
                  mesh.physical_step \div coefficient)

\* refinement_mesh = Mesh1DUniform(node refinements[i][0], node refinements[i][1],
\*                   ..., physical_step=mesh.physical_step/refinement_coefficient)
refinement_mesh(mesh, pair, coefficient) ==
    Mesh1DUniform(to_physical_node(mesh, pair[1]),
                  to_physical_node(mesh, pair[2]),
                  mesh.physical_step \div coefficient)

\* while iteration <= max_iterations
WhileGuardInclusive(it, max_it) == it <= max_it

\* while iteration < max_iterations:
WhileGuard(it, max_it) == it < max_it

\* the inner loop: for i in range(refinements.shape[0]): ... add_mesh(refinement_mesh)
RECURSIVE AddRefinements(_, _, _)
AddRefinements(t, mesh, refinements) ==
    IF refinements = <<>> THEN t
    ELSE AddRefinements(
            add_mesh(t, refinement_mesh(mesh, Head(refinements), t.refinement_coefficient)),
            mesh, Tail(refinements))

\* the body of `for mesh in meshes_tree.__tree[level]` for the mesh at
\* position i of the list: evaluate, collect, refine, prune
LoopBody(self, t, lvl, i, threshold, step) ==
    LET evaluated == __length_tangent_mesh(self, t.tree[lvl][i], step).mesh
        t1 == [t EXCEPT !.tree[lvl][i] = evaluated]
        refinements == refinement_points(evaluated, threshold)
    IN  [tree |-> remove_coarse_duplicates(AddRefinements(t1, evaluated, refinements)),
         count |-> Len(refinements)]

\* cpdef double length(...): the sum of the flattened mesh's solution
length_of(t) == SumSeq(flatten(t).solution)


-----------------------------------------------------------------------------
(* One call of length(): mesh_tree's loop, then the summation.  A second   *)
(* call, on any curve, follows the first with the same arguments.          *)

\* 2^(MaxIter+1): a domain this many units wide halves to whole steps on
\* every level a call can reach
Unit == 2 ^ (MaxIter + 1)

\* the curves whose length is asked for: the base class (all zeros), a Line
\* of speed 5 and the parabola x = t^2, over domains 0..MaxWidth units wide
LengthCurves ==
    { Curve(k[1], Origin0, k[2], k[3], 0, 1, k[4], start, start + w * Unit) :
        k \in { <<"ParametricCurve", 0, 0, 0>>, <<"Line", 3, 4, 0>>, <<"Power", 1, 0, 2>> },
        start \in { 0, -((13 * Unit) \div 8) },
        w \in 0..MaxWidth }

Precisions == {0, 4, 16, 64, 256}

NoTree == InitialTree(NoCurve)

LengthIdle ==
    /\ precision = 0 /\ max_iterations = 0 /\ tangent_step = 0
    /\ meshes_tree = NoTree /\ iteration = 0 /\ level = 0 /\ to_refine = 0
    /\ idx = 0 /\ pc = "idle" /\ length_result = 0
    /\ flagged = <<>> /\ returned = <<>>
    /\ pass_meshes = <<>> /\ visited = <<>>

\* the interval a mesh covers, and those of a list of meshes
Interval(mesh) == <<mesh.physical_boundary_1, mesh.physical_boundary_2>>
Intervals(meshes) == [i \in 1..Len(meshes) |-> Interval(meshes[i])]

\* entry of mesh_tree: the locals initialised and the tree built on the root mesh
Enter(self) ==
    /\ meshes_tree' = InitialTree(self)
    /\ iteration' = 0 /\ level' = 0 /\ to_refine' = 0 /\ idx' = 0
    /\ flagged' = <<>>
    /\ pass_meshes' = <<>> /\ visited' = <<>>
    /\ pc' = "while"

Init ==
    /\ curve \in LengthCurves
    /\ precision \in Precisions
    /\ max_iterations \in 0..MaxIter
    /\ tangent_step = 2
    /\ meshes_tree = InitialTree(curve)
    /\ iteration = 0 /\ level = 0 /\ to_refine = 0 /\ idx = 0
    /\ pc = "while" /\ length_result = 0
    /\ flagged = <<>> /\ returned = <<>>
    /\ pass_meshes = <<>> /\ visited = <<>>
    /\ AngleIdle /\ CoordIdle /\ TangentIdle /\ OtherIdle

\* while iteration < max_iterations: iteration += 1; level = max(levels); to_refine = 0
WhileHead ==
    /\ pc = "while"
    /\ IF WhileGuard(iteration, max_iterations)
         THEN /\ iteration' = iteration + 1
              /\ level' = Max(levels(meshes_tree))
              /\ to_refine' = 0
              /\ idx' = 0
              /\ pass_meshes' = Intervals(meshes_tree.tree[Max(levels(meshes_tree))])
              /\ visited' = <<>>
              /\ pc' = "for"
         ELSE /\ pc' = "return"
              /\ UNCHANGED <<iteration, level, to_refine, idx, pass_meshes, visited>>
    /\ UNCHANGED <<curve, precision, max_iterations, tangent_step, meshes_tree,
                   length_result, flagged, returned, angleVars, coordVars, tangentVars, otherVars>>

\* one turn of `for mesh in meshes_tree.__tree[level]`: the iterator yields the
\* mesh at its position in the list as the list is now, and moves on by one
ForBody ==
    /\ pc = "for"
    /\ idx < Len(meshes_tree.tree[level])
    /\ LET body == LoopBody(curve, meshes_tree, level, idx + 1, precision, tangent_step)
       IN  /\ meshes_tree' = body.tree
           /\ to_refine' = to_refine + body.count
    /\ visited' = Append(visited, Interval(meshes_tree.tree[level][idx + 1]))
    /\ idx' = idx + 1
    /\ UNCHANGED pass_meshes
    /\ UNCHANGED <<curve, precision, max_iterations, tangent_step, iteration, level,
                   pc, length_result, flagged, returned, angleVars, coordVars, tangentVars, otherVars>>

\* the list is exhausted: if to_refine == 0: break
ForEnd ==
    /\ pc = "for"
    /\ idx >= Len(meshes_tree.tree[level])
    /\ flagged' = Append(flagged, to_refine)
    /\ pc' = IF to_refine = 0 THEN "return" ELSE "while"
    /\ UNCHANGED <<curve, precision, max_iterations, tangent_step, meshes_tree,
                   iteration, level, to_refine, idx, length_result, returned,
                   pass_meshes, visited, angleVars, coordVars, tangentVars, otherVars>>

\* the pass that ended last flagged nothing / flagged something
Converged == flagged # <<>> /\ flagged[Len(flagged)] = 0
CutOff == flagged # <<>> /\ flagged[Len(flagged)] > 0

\* mesh_tree returns the tree; length() flattens it, sums the solution and
\* returns the sum
Return ==
    /\ pc = "return"
    /\ length_result' = length_of(meshes_tree)
    /\ returned' = Append(returned, [value |-> length_of(meshes_tree),
                                     converged |-> Converged,
                                     cut_off |-> CutOff])
    /\ pc' = "done"
    /\ UNCHANGED <<curve, precision, max_iterations, tangent_step, meshes_tree,
                   iteration, level, to_refine, idx, flagged, pass_meshes, visited,
                   angleVars, coordVars, tangentVars, otherVars>>

\* the caller asks for the length of another curve, with the same arguments
NextCall ==
    /\ pc = "done"
    /\ Len(returned) = 1
    /\ \E self \in LengthCurves :
         /\ curve' = self
         /\ Enter(self)
    /\ UNCHANGED <<precision, max_iterations, tangent_step, length_result, returned,
                   angleVars, coordVars, tangentVars, otherVars>>

Next == WhileHead \/ ForBody \/ ForEnd \/ Return \/ NextCall

Spec == Init /\ [][Next]_vars

-----------------------------------------------------------------------------
(* Two calls of length() on the same curve object, their steps interleaved *)
(* in any order.  The arguments and the locals of a call (meshes_tree,     *)
(* iteration, level, to_refine, the loop position) live in its own frame.  *)

Calls == {1, 2}

\* the frame of a call on entry of mesh_tree: the tree built on the root mesh
Frame(self, prec, max_it, step) ==
    [precision |-> prec, max_iterations |-> max_it, tangent_step |-> step,
     meshes_tree |-> InitialTree(self),
     iteration |-> 0, level |-> 0, to_refine |-> 0, idx |-> 0,
     pc |-> "while", result |-> 0]

\* a tree kept in one place for all calls: every call works on the first call's
SharedTree(fs, i) == fs[1].meshes_tree

\* cdef TreeMesh1DUniform meshes_tree: a local of the call
OwnTree(fs, i) == fs[i].meshes_tree

\* one step of a call whose frame is f and whose tree is t: the loop head, one
\* turn of the for loop, its end, or the flatten-and-sum of length()
StepFrame(self, f, t) ==
    CASE f.pc = "while" ->
           IF WhileGuard(f.iteration, f.max_iterations)
             THEN [f EXCEPT !.iteration = @ + 1, !.level = Max(levels(t)),
                            !.to_refine = 0, !.idx = 0, !.pc = "for",
                            !.meshes_tree = t]
             ELSE [f EXCEPT !.pc = "return", !.meshes_tree = t]
      [] f.pc = "for" ->
           IF f.idx < Len(t.tree[f.level])
             THEN LET body == LoopBody(self, t, f.level, f.idx + 1,
                                       f.precision, f.tangent_step)
                  IN  [f EXCEPT !.meshes_tree = body.tree,
                                !.to_refine = @ + body.count,
                                !.idx = @ + 1]
             ELSE [f EXCEPT !.pc = IF f.to_refine = 0 THEN "return" ELSE "while",
                            !.meshes_tree = t]
      [] f.pc = "return" ->
           [f EXCEPT !.result = length_of(t), !.pc = "done", !.meshes_tree = t]
      [] OTHER -> f

\* the call run alone, from a frame to its return
RECURSIVE RunAlone(_, _)
RunAlone(self, f) ==
    IF f.pc = "done" THEN f ELSE RunAlone(self, StepFrame(self, f, f.meshes_tree))

InitTwo ==
    /\ curve \in LengthCurves
    /\ \E prec \in Precisions, m1 \in 0..MaxIter, m2 \in 0..MaxIter :
         frames = <<Frame(curve, prec, m1, 2), Frame(curve, prec, m2, 2)>>
    /\ AngleIdle /\ CoordIdle /\ TangentIdle /\ LengthIdle /\ ArcIdle /\ FieldIdle

\* the scheduler lets call i take its next step
StepCall(i) ==
    /\ frames[i].pc # "done"
    /\ frames' = [frames EXCEPT ![i] = StepFrame(curve, frames[i], OwnTree(frames, i))]
    /\ UNCHANGED <<curve, arc_ecc, fieldVars, angleVars, coordVars, tangentVars, meshVars>>

NextTwo == \E i \in Calls : StepCall(i)
SpecTwo == InitTwo /\ [][NextTwo]_vars

-----------------------------------------------------------------------------
(* The length of a Line over t from 0 to 1.  The model counts t in whole   *)
(* steps of 1 / Unit, so the Line (a, b, c) * Unit over [0, 1] is the      *)
(* model's Line (a, b, c) over [0, Unit]: same points, same node by node   *)
(* products of step and speed.                                             *)

\* directions whose norm is a whole number, with and without an origin
LineDirections ==
    { <<3, 4, 0>>, <<-3, 0, 4>>, <<1, 2, 2>>, <<2, -3, 6>>, <<0, 0, 1>>, <<0, 0, 0>> }

LineCurves ==
    { Curve("Line", o, d[1], d[2], d[3], 1, 0, 0, Unit) :
        d \in LineDirections, o \in { Origin0, <<1, -2, 3>> } }

InitLine ==
    /\ curve \in LineCurves
    /\ precision \in Precisions
    /\ max_iterations \in 0..MaxIter
    /\ tangent_step = 2
    /\ meshes_tree = InitialTree(curve)
    /\ iteration = 0 /\ level = 0 /\ to_refine = 0 /\ idx = 0
    /\ pc = "while" /\ length_result = 0
    /\ flagged = <<>> /\ returned = <<>>
    /\ pass_meshes = <<>> /\ visited = <<>>
    /\ AngleIdle /\ CoordIdle /\ TangentIdle /\ OtherIdle

NextLine == WhileHead \/ ForBody \/ ForEnd \/ Return
SpecLine == InitLine /\ [][NextLine]_vars

-----------------------------------------------------------------------------
(* The specifications of the pure functions *)

InitAngle ==
    InitAngleInputs /\ CoordIdle /\ TangentIdle /\ LengthIdle /\ OtherIdle /\ curve = NoCurve
NextAngle == Reduce \/ ReducePublic \/ ReduceAgain
SpecAngle == InitAngle /\ [][NextAngle]_vars

InitCoord ==
    InitCoordInputs /\ AngleIdle /\ TangentIdle /\ LengthIdle /\ OtherIdle /\ curve = NoCurve
NextCoord == CallConversion \/ CallInverse
SpecCoord == InitCoord /\ [][NextCoord]_vars

InitTangent == InitTangentInputs /\ AngleIdle /\ CoordIdle /\ LengthIdle /\ OtherIdle
NextTangent == CallTangents
SpecTangent == InitTangent /\ [][NextTangent]_vars

InitArc ==
    /\ \E a \in Axes, b \in Axes :
         curve = Arc__init__(a, b, 0, 2 * 2 * M_PI, TRUE)
    /\ arc_ecc = NotCalled
    /\ AngleIdle /\ CoordIdle /\ TangentIdle /\ LengthIdle /\ FramesIdle /\ FieldIdle

\* a SuperposedField constructed from a list the constructor accepts
InitField ==
    /\ \E fields \in FieldLists :
         /\ SuperposedField__init__(fields).raised = "none"
         /\ sf = SuperposedField__init__(fields).self
         /\ sf_assigned = fields
    /\ sf_before = NoField /\ sf_raised = "none"
    /\ curve = NoCurve
    /\ AngleIdle /\ CoordIdle /\ TangentIdle /\ LengthIdle /\ ArcIdle /\ FramesIdle

NextField == AssignFields
SpecField == InitField /\ [][NextField]_vars

NextArc == SetA \/ SetB \/ SetRight \/ CallEccentricity
SpecArc == InitArc /\ [][NextArc]_vars

-----------------------------------------------------------------------------
(* Claims about the angle reduction (SpecAngle) *)

\* the reduction asked for by reduce_angle(theta) with keep_sign=False has returned
ReducedPositive == apc = "reduced_public" /\ positive_flag

Congruent(x, y) == (x - y) % (2 * M_PI) = 0

-----------------------------------------------------------------------------
(* Claims about the coordinate conversions (SpecCoord) *)

\* a single triple or an (N, 3) array with N >= 1
IsTripleOrBatch(a) ==
    \/ a.shape = <<3>>
    \/ Len(a.shape) = 2 /\ a.shape[1] >= 1 /\ a.shape[2] = 3

FromCartesian == {"cartesian_to_spherical", "cartesian_to_cylindrical"}

\* C9: cartesian -> spherical -> cartesian and cartesian -> cylindrical ->
\* cartesian return the input, and every triple and every (N, 3) array with
\* N >= 1 (a single row included) is accepted and round-trips row by row.
C9_RoundTrip ==
    (fn \in FromCartesian /\ IsTripleOrBatch(arr0)) =>
        /\ cpc \in {"converted", "back"} => res.raised = "none" /\ res.shape = arr0.shape
        /\ cpc = "back" => back.raised = "none" /\ back.shape = arr0.shape
                           /\ back.data = arr0.data

\* the 1-D triple an input of fewer than 3 elements is padded to
Pad3(a) == [shape |-> <<3>>,
            data |-> [i \in 1..3 |-> IF i <= Len(a.data) THEN a.data[i] ELSE 0]]

RejectsBadShape ==
    (Size(arr0) > 3 /\ ~(Len(arr0.shape) = 2 /\ arr0.shape[2] = 3)) =>
        res = Raised("ValueError")

\* C10 as stated: each of the six conversions raises ValueError, returning
\* nothing, for every input of more than 3 elements whose shape is not (N, 3);
\* an input of fewer than 3 elements is not rejected but zero-padded to a triple.
C10_RejectsOrPads ==
    cpc = "converted" =>
        /\ RejectsBadShape
        /\ Size(arr0) < 3 =>
              /\ res.raised = "none"
              /\ res = Call(fn, Pad3(arr0)).res

\* C10 amended: each of the six conversions raises ValueError, returning
\* nothing, for every input of more than 3 elements whose shape is not (N, 3);
\* a one-dimensional input of fewer than 3 elements is not rejected but
\* zero-padded to a triple.
C10_RejectsOrPads1D ==
    cpc = "converted" =>
        /\ RejectsBadShape
        /\ (Size(arr0) < 3 /\ Len(arr0.shape) = 1) =>
              /\ res.raised = "none"
              /\ res = Call(fn, Pad3(arr0)).res

\* C10 witness: a one-dimensional input of two elements has been converted to
\* a triple that is not all zero
C10_Witness ==
    /\ cpc = "converted" /\ arr0.shape = <<2>>
    /\ res.raised = "none" /\ res.shape = <<3>>
    /\ \E i \in 1..3 : res.data[i] # 0

-----------------------------------------------------------------------------
(* Claims about the batched tangents (SpecTangent) *)

\* C6: for at least two samples, tangent(t, step) holds at index 0 the forward
\* difference at t[0], at the last index the backward difference at t[last],
\* at every interior index i the central difference at t[i]; its columns equal
\* tangent_x(t), tangent_y(t) and tangent_z(t) entry by entry.
C6_TangentRows ==
    (tpc = "called" /\ Len(samples) >= 2) =>
        /\ Len(tan_rows) = Len(samples)
        /\ \A i \in 1..Len(samples) :
              /\ 1 < i /\ i < Len(samples) =>
                    tan_rows[i] = << tangent_x_point(curve, samples[i], tstep, TRUE, TRUE),
                                     tangent_y_point(curve, samples[i], tstep, TRUE, TRUE),
                                     tangent_z_point(curve, samples[i], tstep, TRUE, TRUE) >>
              /\ tan_rows[i] = << tan_x[i], tan_y[i], tan_z[i] >>

-----------------------------------------------------------------------------
(* Claims about the length estimator (Spec) *)

\* a call of length() is in progress or has returned
InCall == pc \in {"while", "for", "return", "done"}

\* the segments, in ascending order, tile [lo, hi]: the first starts at lo,
\* the last ends at hi, each starts where the one before it ended, and none
\* is empty unless the interval itself is
Tiles(segs, lo, hi) ==
    /\ Len(segs) >= 1
    /\ segs[1].lo = lo
    /\ segs[Len(segs)].hi = hi
    /\ \A i \in 1..Len(segs) : segs[i].lo < segs[i].hi \/ lo = hi
    /\ \A i \in 1..(Len(segs) - 1) : segs[i].hi = segs[i + 1].lo

\* C1: after any number of refinement passes (0 up to max_iterations) the
\* flattened mesh that length() sums is ordered and non-overlapping and its
\* segments exactly partition [start, stop]; the returned length is the sum
\* of the solution of every segment of that partition, each counted once.
C1_FlatMeshPartitionsDomain ==
    InCall =>
        LET flat == flatten(meshes_tree)
        IN  /\ Tiles(flat.segments, curve.start, curve.stop)
            /\ pc = "done" =>
                 length_result = SumSeq([i \in 1..Len(flat.segments) |->
                                            flat.segments[i].solution])

\* C1 witness: a call returned after two passes or more with a flattened mesh
\* that mixes segments of a coarse mesh with segments of a finer child
C1_Witness ==
    /\ pc = "done" /\ iteration >= 2
    /\ \E p, q \in LeafSegments(meshes_tree) : p.level < q.level /\ p.hi <= q.lo
    /\ \E l \in levels(meshes_tree) : meshes_tree.tree[l] = <<>>

\* the passes of the call so far are bounded by max_iterations, only the last
\* finished pass can have flagged nothing, and none starts after such a pass
PassesBounded ==
    InCall =>
        /\ iteration <= max_iterations
        /\ Len(flagged) <= iteration
        /\ \A i \in 1..(Len(flagged) - 1) : flagged[i] > 0
        /\ Converged => pc \in {"return", "done"}
        /\ max_iterations = 0 => iteration = 0 /\ flagged = <<>>

\* how far a call is from returning: the passes it may still start, whether
\* it is inside a pass, and the meshes the pass has still to visit
Rank ==
    CASE pc = "while" -> <<max_iterations - iteration + 1, 0, 0>>
      [] pc = "for" -> <<max_iterations - iteration + 1, 1,
                         Len(meshes_tree.tree[level]) - idx + 1>>
      [] pc = "return" -> <<0, 1, 0>>
      [] OTHER -> <<0, 0, 0>>

LexLess(r, q) ==
    \/ r[1] < q[1]
    \/ r[1] = q[1] /\ r[2] < q[2]
    \/ r[1] = q[1] /\ r[2] = q[2] /\ r[3] < q[3]

\* a step of a call in progress lowers its rank, which stays a triple of naturals
StepLowersRank ==
    pc \in {"while", "for", "return"} =>
        /\ LexLess(Rank', Rank)
        /\ \A i \in 1..3 : Rank'[i] >= 0

\* C2: mesh_tree always terminates: for every curve, precision and
\* max_iterations it executes at most max_iterations refinement passes, it
\* stops right after the first pass in which nothing was flagged, and with
\* max_iterations = 0 no pass is executed.  Every step of a call lowers a
\* rank of natural numbers in the lexicographic order, so no call runs for ever.
C2_Terminates == [](PassesBounded) /\ [][StepLowersRank]_vars

\* C2 witness: a call allowed more passes returned early, right after its
\* second pass, the first one that flagged nothing
C2_Witness ==
    /\ pc = "done" /\ Len(flagged) = 2 /\ Converged
    /\ iteration < max_iterations

C4_CutOffSurfaced ==
    \A i, j \in DOMAIN returned :
        (returned[i].cut_off /\ returned[j].converged)
            => returned[i].value # returned[j].value

\* C5: for a curve with start = stop, length() returns 0 and mesh_tree
\* performs zero refinement iterations: no pass over the root mesh is
\* executed and no child mesh is created.
C5_DegenerateDomainNoPass ==
    (InCall /\ curve.start = curve.stop) =>
        /\ iteration = 0 /\ flagged = <<>>
        /\ levels(meshes_tree) = {0}
        /\ pc = "done" => length_result = 0

-----------------------------------------------------------------------------
(* Claims about the Arc (SpecArc) *)

\* C11: an Arc's semi-axes satisfy a >= b in every reachable state, after
\* construction with the two inputs in either order and after any sequence
\* of calls to the a and b setters, so that eccentricity() is always the
\* square root of a non-negative number.
C11_AxesOrdered ==
    curve.kind = "Arc" => (curve.a >= curve.b /\ ~arc_ecc.nan)

-----------------------------------------------------------------------------
(* Claims about two interleaved calls of length() (SpecTwo) *)

\* a step changes the frame of one call at most
OneFrameChanges ==
    \A i, j \in Calls : (i # j /\ frames'[i] # frames[i]) => frames'[j] = frames[j]

\* every call that has returned holds the length it returns when run alone
\* from its own arguments
SameAsAlone ==
    \A i \in DOMAIN frames :
        frames[i].pc = "done" =>
            frames[i].result =
                RunAlone(curve, Frame(curve, frames[i].precision,
                                      frames[i].max_iterations,
                                      frames[i].tangent_step)).result

\* C12: two length computations interleaved at any step on the same curve
\* object do not interfere: each call mutates only its own mesh tree, neither
\* changes the curve's start, stop or shape parameters, and each returns the
\* length it returns when run alone.
C12_CallsDoNotInterfere ==
    [](SameAsAlone) /\ [][OneFrameChanges /\ curve' = curve]_vars

\* C12 witness: the second call has returned after refining twice or more
\* while the first call, started before it, is still inside its second pass
C12_Witness ==
    /\ frames # <<>>
    /\ frames[2].pc = "done" /\ frames[2].iteration >= 2 /\ frames[2].result > 0
    /\ frames[1].pc = "for" /\ frames[1].iteration = 2
    /\ frames[1].meshes_tree # frames[2].meshes_tree

-----------------------------------------------------------------------------
(* Claims about the length of a Line (SpecLine) *)

\* the length of the Line over t from 0 to 1: sqrt(a^2 + b^2 + c^2), for the
\* direction (a, b, c) * Unit the model's Line stands for
LineLength(self) ==
    sqrt((self.a * Unit) * (self.a * Unit) + (self.b * Unit) * (self.b * Unit)
         + (self.c * Unit) * (self.c * Unit))

-----------------------------------------------------------------------------
(* Claims about the geometry of the mesh tree (Spec) *)

\* the meshes a turn of the for loop appended to the level below the current one
Children ==
    LET old == IF level + 1 \in DOMAIN meshes_tree.tree
                 THEN Len(meshes_tree.tree[level + 1]) ELSE 0
    IN  IF level + 1 \in DOMAIN meshes_tree'.tree
          THEN SubSeq(meshes_tree'.tree[level + 1], old + 1,
                      Len(meshes_tree'.tree[level + 1]))
          ELSE <<>>

\* child spans exactly one flagged run of parent: from a node of parent to a
\* later node of parent, every segment between them above the threshold and
\* the segments on either side not above it
SpansFlaggedRun(child, parent, threshold) ==
    LET n == physical_nodes(parent)
    IN  \E p \in 1..parent.num : \E q \in (p + 1)..parent.num :
          /\ child.physical_boundary_1 = n[p]
          /\ child.physical_boundary_2 = n[q]
          /\ \A i \in (p + 1)..q : parent.residual[i] > threshold
          /\ p > 1 => ~(parent.residual[p] > threshold)
          /\ q < parent.num => ~(parent.residual[q + 1] > threshold)

\* a turn of the for loop creates one child per flagged run of the mesh it
\* evaluated, each with half the step, and no mesh on any other level
ChildrenOfFlaggedRuns ==
    (pc = "for" /\ idx' = idx + 1) =>
        LET parent == __length_tangent_mesh(curve, meshes_tree.tree[level][idx + 1],
                                            tangent_step).mesh
            n == physical_nodes(parent)
        IN  /\ \A j \in 1..Len(Children) :
                 /\ SpansFlaggedRun(Children[j], parent, precision)
                 /\ Children[j].physical_step * 2 = parent.physical_step
            /\ \A i \in Segments(parent) :
                 parent.residual[i] > precision =>
                    \E j \in 1..Len(Children) :
                       /\ Children[j].physical_boundary_1 <= n[i - 1]
                       /\ n[i] <= Children[j].physical_boundary_2
            /\ DOMAIN meshes_tree'.tree \subseteq DOMAIN meshes_tree.tree \cup {level + 1}

\* the root has the three nodes start, midpoint, stop and a mesh of level k
\* has the step (stop - start) / 2^(k+1)
RootAndSteps ==
    InCall =>
        /\ (iteration = 0 /\ curve.start < curve.stop) =>
              /\ Len(meshes_tree.tree[0]) = 1
              /\ physical_nodes(meshes_tree.tree[0][1])
                   = <<curve.start, curve.start + (curve.stop - curve.start) \div 2,
                       curve.stop>>
              /\ (curve.stop - curve.start) % 2 = 0
        /\ \A k \in levels(meshes_tree) : \A i \in 1..Len(meshes_tree.tree[k]) :
              meshes_tree.tree[k][i].physical_step * 2 ^ (k + 1) = curve.stop - curve.start

-----------------------------------------------------------------------------
(* Claims about the meshes a pass evaluates (Spec) *)

\* how many entries of the sequence q equal x
Count(q, x) == Cardinality({ i \in 1..Len(q) : q[i] = x })

\* a pass was started and its for loop has run off the end of the list
PassOver ==
    /\ InCall /\ iteration >= 1
    /\ pc = "for" => idx >= Len(meshes_tree.tree[level])

\* C15: in each refinement pass, every mesh that is at the finest level when
\* the pass starts is evaluated exactly once before the pass ends; none is
\* skipped and none is evaluated twice although the list of the level
\* changes during the iteration.
C15_EachMeshOncePerPass ==
    PassOver =>
        /\ \A i \in 1..Len(pass_meshes) : Count(visited, pass_meshes[i]) = 1
        /\ Len(visited) = Len(pass_meshes)

-----------------------------------------------------------------------------
(* Claims about the values stored on an evaluated mesh (Spec) *)

\* the magnitude of the curve's tangent at each node's own parameter: forward
\* at the first node, backward at the last, central at t[i] between them
SpeedAtNodes(self, t, step) ==
    [i \in 1..Len(t) |->
        Norm3(<<tangent_x(self, t, step)[i], tangent_y(self, t, step)[i],
                tangent_z(self, t, step)[i]>>)]

\* the distance between the points of the curve at two parameters
Chord(self, t0, t1) ==
    Norm3(<<x_point(self, t1) - x_point(self, t0),
            y_point(self, t1) - y_point(self, t0),
            z_point(self, t1) - z_point(self, t0)>>)

\* the meshes of the current level that the current pass has evaluated
EvaluatedNow ==
    { k \in 1..Len(meshes_tree.tree[level]) :
        \E j \in 1..Len(visited) : visited[j] = Interval(meshes_tree.tree[level][k]) }

\* C16: after a mesh is evaluated, solution[0] = 0 and residual[0] = 0, and
\* for every later node i, solution[i] is the trapezoid estimate
\* (t[i] - t[i-1]) * (speed(t[i-1]) + speed(t[i])) / 2 with speed the magnitude
\* of the tangent at that node's own parameter, and residual[i] is
\* |solution[i] - chord between the points at t[i-1] and t[i]|, never negative.
C16_TrapezoidAtOwnNodes ==
    (InCall /\ iteration >= 1) =>
        \A k \in EvaluatedNow :
            LET mesh == meshes_tree.tree[level][k]
                t == physical_nodes(mesh)
                speed == SpeedAtNodes(curve, t, tangent_step)
            IN  /\ mesh.solution[1] = 0 /\ mesh.residual[1] = 0
                /\ \A i \in 2..mesh.num :
                     /\ mesh.solution[i]
                          = ((t[i] - t[i - 1]) * (speed[i - 1] + speed[i])) \div 2
                     /\ mesh.residual[i]
                          = fabs(mesh.solution[i] - Chord(curve, t[i - 1], t[i]))
                     /\ mesh.residual[i] >= 0

-----------------------------------------------------------------------------
(* Claims about the argument of a conversion (SpecCoord) *)

\* C17: after spherical_to_cartesian or cylindrical_to_cartesian returns, for
\* a single triple or an (N, 3) batch and for any angle value (also outside
\* [0, 2*pi)), the caller's input array holds exactly the values it held
\* before the call.
C17_ArgumentUntouched ==
    (/\ cpc \in {"converted", "back"}
     /\ fn \in {"spherical_to_cartesian", "cylindrical_to_cartesian"}
     /\ res.raised = "none"
     /\ arr0.shape = <<3>> \/ (Len(arr0.shape) = 2 /\ arr0.shape[2] = 3))
        => arr = arr0

-----------------------------------------------------------------------------
(* Claims about SuperposedField.fields (SpecField) *)

\* the list holds something that is no Field, or a Field whose type differs
\* from the object's type or from that of another Field of the list
Rejectable(fields, ty) ==
    \E i \in 1..Len(fields) :
        \/ ~isinstance_Field(fields[i])
        \/ ty # None /\ fields[i].type # ty
        \/ \E j \in 1..Len(fields) :
              isinstance_Field(fields[j]) /\ fields[j].type # fields[i].type

\* every stored field is a Field of the object's type
StoredFieldsHaveType ==
    \A i \in 1..Len(sf.fields) :
        isinstance_Field(sf.fields[i]) /\ sf.fields[i].type = sf.type

\* an assignment of a list with a wrong element raised ValueError
RejectedRaised ==
    Rejectable(sf_assigned, sf_before.type) => sf_raised = "ValueError"

\* C18: after any sequence of assignments to fields, every stored field has
\* the SuperposedField's type; an assignment whose list holds an element that
\* is no Field, or a Field of a different type, raises ValueError and leaves
\* the stored list and the type exactly as they were before it.
C18_FieldsAssignmentAtomic ==
    sf_raised # "idle" =>
        /\ StoredFieldsHaveType
        /\ RejectedRaised
        /\ sf_raised = "ValueError" => sf = sf_before

-----------------------------------------------------------------------------
(* Claims about the index of the last sample (SpecTangent) *)

\* C19: for every sequence of n >= 0 samples, the empty sequence and a single
\* sample included, tangent, tangent_x, tangent_y and tangent_z return
\* exactly n entries and read or write only indices 0..n-1: the unsigned
\* 32-bit index computed as n - 1 never wraps around to 2^32 - 1.
C19_LastIndexNeverWraps ==
    tpc = "called" =>
        /\ tan_s # [hi |-> 65535, lo |-> 65535]
        /\ tan_outcome = [batched |-> "returned", per_axis |-> "returned"]
        /\ Len(tan_rows) = Len(samples) /\ Len(tan_x) = Len(samples)
        /\ Len(tan_y) = Len(samples) /\ Len(tan_z) = Len(samples)
        /\ AccessedEnds(samples) \subseteq { UInt32(i) : i \in 0..(Len(samples) - 1) }

=============================================================================
